---- MODULE Spec2Model ----
(***************************************************************************)
(* Model of the vocabulary-analysis application (src/app.py): the prompt   *)
(* template store with its active-template setting, the word analysis     *)
(* cache with the retrying generation call and its text clean-up, and the  *)
(* curriculum file parser.                                                 *)
(*                                                                         *)
(* Texts are sequences of characters.  The two literals of the preamble    *)
(* pattern of line 123 are each one character of the model: "PRE" stands   *)
(* for the literal that opens the pattern and "SUF" for the literal that   *)
(* closes it.                                                              *)
(***************************************************************************)
EXTENDS Integers, Sequences, FiniteSets, TLC

VARIABLES
    templates,    \* table prompt_templates: id -> [name, content]
    settings,     \* table app_settings: <<>> (no row) or <<active_template_id>>
    word_cache,   \* table word_cache: set of rows [word, analysis]
    api_key,      \* whether OPENAI_API_KEY is set
    pc,           \* "idle", or "retry" while a request is inside the retry loop
    req,          \* the request inside the retry loop: [op, word, content, attempt],
                  \* with the word cache as the request found it (before)
    calls,        \* calls made to the generation service by the current request
    resp,         \* the response of the last request (Pending while one is running)
    text,         \* clean-up: the text being cleaned
    cleaned,      \* clean-up: the texts obtained so far, <<once, twice>>
    lines,        \* parser: the lines of the file
    pos,          \* parser: number of lines read
    units,        \* parser: units
    current_unit, \* parser: <<>> (None) or <<[title, groups]>>
    current_group,\* parser: <<>> (None) or <<group>>
    previous_line,\* parser: <<>> (None) or <<line>>
    note,         \* parser: what the last step did with the line it read
    audio_files,  \* static/audio_cache: filename -> [of, bytes]
    tts_calls,    \* calls made to the speech service by the last /tts request
    tts_resp,     \* the response of the last /tts request
    procs,        \* concurrent requests: request -> its locals and position
    lock,         \* the request holding the database write lock, 0 for none
    work,         \* the uncommitted tables of the request holding the lock
    last_write    \* the row of the last commit to word_cache, <<>> for none

storeVars == <<templates, settings, word_cache, api_key, pc, req, calls, resp>>
cleanVars == <<text, cleaned>>
parseVars == <<lines, pos, units, current_unit, current_group, previous_line, note>>
audioVars == <<audio_files, tts_calls, tts_resp>>
concVars == <<procs, lock, work, last_write>>
extVars == <<audioVars, concVars>>
vars == <<storeVars, cleanVars, parseVars, extVars>>

----------------------------------------------------------------------------
(* Bounds *)

MaxId == 3        \* template ids are 1..MaxId
MaxLen == 4       \* longest text given to the clean-up
MaxLines == 5     \* longest file given to the parser (besides the scenario)

----------------------------------------------------------------------------
(* Text helpers: str.strip and the two re.sub calls of lines 123-124 *)

Chars == {"PRE", "SUF", "#", " ", "\n", "a"}

IsSpace(c) == c \in {" ", "\n"}

RECURSIVE LStrip(_)
LStrip(s) == IF s # <<>> /\ IsSpace(Head(s)) THEN LStrip(Tail(s)) ELSE s

RECURSIVE RStrip(_)
RStrip(s) ==
    IF s # <<>> /\ IsSpace(s[Len(s)]) THEN RStrip(SubSeq(s, 1, Len(s) - 1)) ELSE s

Strip(s) == RStrip(LStrip(s))

\* the longest prefix of s that "." matches: everything up to the first newline
RECURSIVE SkipLine(_)
SkipLine(s) == IF s # <<>> /\ Head(s) # "\n" THEN SkipLine(Tail(s)) ELSE s

\* re.sub(r'^PRE.*?SUF\s*', '', s): the lazy .*? stops at the first SUF of the
\* first line; no SUF on that line, no match
StripPreamble(s) ==
    IF s # <<>> /\ Head(s) = "PRE"
    THEN LET ends == {j \in 2..Len(s) :
                         /\ s[j] = "SUF"
                         /\ \A k \in 2..(j - 1) : s[k] # "\n" /\ s[k] # "SUF"}
         IN  IF ends = {} THEN s
             ELSE LET j == CHOOSE e \in ends : TRUE
                  IN  LStrip(SubSeq(s, j + 1, Len(s)))
    ELSE s

\* re.sub(r'^#\s*.*\s*', '', s): "#", all whitespace after it (newlines
\* included), the rest of that line, all whitespace after it
StripHeading(s) ==
    IF s # <<>> /\ Head(s) = "#"
    THEN LStrip(SkipLine(LStrip(Tail(s))))
    ELSE s

Cleanup(s) == Strip(StripHeading(StripPreamble(s)))

----------------------------------------------------------------------------
(* The store.  schema.sql is not among the sources: the constraints of the *)
(* tables are those of the specification's section 6.                      *)

Names == {"Default", "A", "B"}
Contents == {"Please provide a default template."}
Words == {"cat", "dog"}
RawTexts == {<<"a">>, <<"PRE", "a", "SUF", " ", "a", " ">>, <<"#", "a", "\n", "a", "a">>}

\* retry budgets one short and one long
MAX_RETRIES_Two == 3 - 1
MAX_RETRIES_Four == 3 + 1

MAX_RETRIES == 3

Ids == 1..MaxId
ReqIds == 1..(MaxId + 1)     \* ids a request may name; MaxId + 1 never exists

Min(S) == CHOOSE x \in S : \A y \in S : x <= y

\* prompt_templates(id PK): the ids an INSERT may generate
NewIds(ts) == Ids \ DOMAIN ts

\* prompt_templates(name UNIQUE): the rows, other than row `id`, an INSERT or
\* UPDATE of `name` conflicts with
NameConflicts(ts, name, id) == {t \in DOMAIN ts : t # id /\ ts[t].name = name}

\* word_cache(word UNIQUE): the rows an INSERT of `word` conflicts with
WordConflicts(rows, word) == {r \in rows : r.word = word}

\* an INSERT OR IGNORE: the row already there is kept
InsertOrIgnore(rows, word, analysis) ==
    IF WordConflicts(rows, word) # {} THEN rows
    ELSE rows \cup {[word |-> word, analysis |-> analysis]}

\* INSERT OR REPLACE INTO word_cache (word, analysis) VALUES (?, ?)
InsertOrReplace(rows, word, analysis) ==
    (rows \ WordConflicts(rows, word)) \cup {[word |-> word, analysis |-> analysis]}

\* a lookup that never finds the row
CacheLookupMisses(rows, word) == <<>>

\* SELECT analysis FROM word_cache WHERE word = ? ... fetchone(): <<>> is None
CacheLookup(rows, word) ==
    LET hit == {r \in rows : r.word = word}
    IN  IF hit = {} THEN <<>> ELSE <<(CHOOSE r \in hit : TRUE).analysis>>

\* SELECT ... FROM prompt_templates WHERE id = (SELECT active_template_id FROM
\* app_settings WHERE id = 1) ... fetchone(): <<>> is None
ActiveRow(ts, st) ==
    IF st # <<>> /\ st[1] \in DOMAIN ts THEN <<ts[st[1]]>> ELSE <<>>

\* GET /api/templates/active: the template, or 404
get_active_template ==
    IF ActiveRow(templates, settings) # <<>>
    THEN [status |-> 200, id |-> settings[1]]
    ELSE [status |-> 404]

\* initialize_app on a store holding tables ts and st: the stores it may leave
initialize_app(ts, st, default_content) ==
    LET ts1 == IF DOMAIN ts = {}
               THEN [i \in {1} |-> [name |-> "Default", content |-> default_content]]
               ELSE ts
    IN  IF st = <<>>
        THEN {[templates |-> ts1, settings |-> <<i>>] : i \in DOMAIN ts1}
        ELSE {[templates |-> ts1, settings |-> st]}

NoTemplates == [i \in {} |-> [name |-> "Default", content |-> ""]]

Pending == [op |-> "pending", status |-> 0]
NoReq == [op |-> "none", word |-> "", content |-> "", attempt |-> 0, before |-> {}]

StoreInit ==
    /\ \E c \in Contents : \E s \in initialize_app(NoTemplates, <<>>, c) :
           /\ templates = s.templates
           /\ settings = s.settings
    /\ word_cache = {}
    /\ api_key \in BOOLEAN
    /\ pc = "idle"
    /\ req = NoReq
    /\ calls = 0
    /\ resp = Pending

----------------------------------------------------------------------------
(* Template management *)

create_template(name, content) ==
    /\ pc = "idle"
    /\ IF NameConflicts(templates, name, 0) # {}
       THEN /\ resp' = [op |-> "create", status |-> 409]
            /\ UNCHANGED templates
       ELSE \E new_id \in NewIds(templates) :
            /\ templates' = [i \in DOMAIN templates \cup {new_id} |->
                               IF i = new_id THEN [name |-> name, content |-> content]
                               ELSE templates[i]]
            /\ resp' = [op |-> "create", status |-> 201, id |-> new_id]
    /\ UNCHANGED <<settings, word_cache, api_key, pc, req, calls>>
    /\ UNCHANGED <<cleanVars, parseVars, extVars>>

\* an UPDATE that has lost its WHERE clause
UpdateEveryRow(ts, id, name, content) ==
    [i \in DOMAIN ts |-> [name |-> name, content |-> content]]

\* line 243: UPDATE prompt_templates SET name = ?, content = ? WHERE id = ?
UpdateRow(ts, id, name, content) ==
    [i \in DOMAIN ts |->
        IF i = id THEN [name |-> name, content |-> content] ELSE ts[i]]

\* an id that matches no row conflicts with nothing: the UPDATE changes no row
\* and the handler answers 200
update_template(id, name, content) ==
    /\ pc = "idle"
    /\ IF id \in DOMAIN templates /\ NameConflicts(templates, name, id) # {}
       THEN /\ resp' = [op |-> "update", status |-> 409, id |-> id]
            /\ UNCHANGED templates
       ELSE /\ templates' = UpdateRow(templates, id, name, content)
            /\ resp' = [op |-> "update", status |-> 200, id |-> id]
    /\ UNCHANGED <<settings, word_cache, api_key, pc, req, calls>>
    /\ UNCHANGED <<cleanVars, parseVars, extVars>>

\* a count check that is off by one
IsLastTemplateOffByOne(ts) == Cardinality(DOMAIN ts) < 1

\* line 251: SELECT COUNT(*) FROM prompt_templates ... <= 1
IsLastTemplate(ts) == Cardinality(DOMAIN ts) <= 1

Max(S) == CHOOSE x \in S : \A y \in S : x >= y

\* a replacement chosen with ORDER BY id DESC
NewActiveHighest(ts, id) == Max(DOMAIN ts \ {id})

\* line 256: SELECT id FROM prompt_templates WHERE id != ? ORDER BY id LIMIT 1
NewActive(ts, id) == Min(DOMAIN ts \ {id})

\* resp.active_id records the active id the handler read at line 254, and
\* resp.existed whether the DELETE of line 259 found the row
delete_template(id) ==
    /\ pc = "idle"
    /\ IF IsLastTemplate(templates)
       THEN /\ resp' = [op |-> "delete", status |-> 400, id |-> id]
            /\ UNCHANGED <<templates, settings>>
       ELSE IF \/ settings = <<>>
               \/ settings = <<id>> /\ DOMAIN templates \ {id} = {}
       THEN \* fetchone() is None at line 254 or 256: TypeError, no commit
            /\ resp' = [op |-> "delete", status |-> 500, id |-> id]
            /\ UNCHANGED <<templates, settings>>
       ELSE LET active_id == settings[1]
            IN  /\ settings' = IF active_id = id THEN <<NewActive(templates, id)>>
                                ELSE settings
                /\ templates' = [i \in DOMAIN templates \ {id} |-> templates[i]]
                /\ resp' = [op |-> "delete", status |-> 200, id |-> id,
                            active_id |-> active_id, existed |-> id \in DOMAIN templates]
    /\ UNCHANGED <<word_cache, api_key, pc, req, calls>>
    /\ UNCHANGED <<cleanVars, parseVars, extVars>>

set_active_template(id) ==
    /\ pc = "idle"
    /\ settings' = IF settings = <<>> THEN settings ELSE <<id>>
    /\ resp' = [op |-> "set_active", status |-> 200, id |-> id]
    /\ UNCHANGED <<templates, word_cache, api_key, pc, req, calls>>
    /\ UNCHANGED <<cleanVars, parseVars, extVars>>

----------------------------------------------------------------------------
(* Word analysis *)

\* what the handler returns for an analysis: /analyze renders the markdown to
\* HTML (lines 144, 158), /reanalyze returns the markdown itself (line 177)
Body(op, analysis) == <<IF op = "analyze" THEN "html" ELSE "markdown", analysis>>

\* lines 155-159 and 173-177: persist, commit and answer
Persist(op, word, analysis_text) ==
    /\ word_cache' = InsertOrReplace(word_cache, word, analysis_text)
    /\ resp' = [op |-> op, status |-> 200, word |-> word,
                analysis |-> Body(op, analysis_text),
                replaced |-> CacheLookup(word_cache, word)]
    /\ pc' = "idle"
    /\ req' = NoReq

\* an error path that stores the failure under the word
RefuseAndStore(op, word, status, error) ==
    /\ resp' = [op |-> op, status |-> status, word |-> word, error |-> error]
    /\ pc' = "idle"
    /\ req' = NoReq
    /\ word_cache' = InsertOrReplace(word_cache, word, <<>>)

\* lines 148-149, 152-153, 166-167, 170-171: answer with an error
Refuse(op, word, status, error) ==
    /\ resp' = [op |-> op, status |-> status, word |-> word, error |-> error]
    /\ pc' = "idle"
    /\ req' = NoReq
    /\ UNCHANGED word_cache

\* lines 98-110: get_word_analysis up to the retry loop, and what its caller
\* does with an early return
get_word_analysis(op, word, template_content, force_reanalyze) ==
    LET cached == CacheLookup(word_cache, word)
    IN  IF ~force_reanalyze /\ cached # <<>>
        THEN Persist(op, word, cached[1])
        ELSE IF ~api_key
        THEN Refuse(op, word, 500, "OPENAI_API_KEY is not set.")
        ELSE /\ pc' = "retry"
             /\ req' = [op |-> op, word |-> word, content |-> template_content,
                        attempt |-> 0, before |-> word_cache]
             /\ resp' = Pending
             /\ UNCHANGED word_cache

analyze(word) ==
    /\ pc = "idle"
    /\ calls' = 0
    /\ LET cached == CacheLookup(word_cache, word)
           active_template == ActiveRow(templates, settings)
       IN  IF cached # <<>>
           THEN /\ resp' = [op |-> "analyze", status |-> 200, word |-> word,
                            analysis |-> Body("analyze", cached[1])]
                /\ UNCHANGED <<word_cache, pc, req>>
           ELSE IF active_template = <<>>
           THEN Refuse("analyze", word, 400, "No active template found.")
           ELSE get_word_analysis("analyze", word, active_template[1].content, FALSE)
    /\ UNCHANGED <<templates, settings, api_key>>
    /\ UNCHANGED <<cleanVars, parseVars, extVars>>

reanalyze(word) ==
    /\ pc = "idle"
    /\ calls' = 0
    /\ LET active_template == ActiveRow(templates, settings)
       IN  IF active_template = <<>>
           THEN Refuse("reanalyze", word, 400, "No active template found.")
           ELSE get_word_analysis("reanalyze", word, active_template[1].content, TRUE)
    /\ UNCHANGED <<templates, settings, api_key>>
    /\ UNCHANGED <<cleanVars, parseVars, extVars>>

\* lines 111-120, 126-128: one call to the service that raises
attempt_fails ==
    /\ pc = "retry"
    /\ req.attempt < MAX_RETRIES
    /\ calls' = calls + 1
    /\ req' = [req EXCEPT !.attempt = @ + 1]
    /\ UNCHANGED <<templates, settings, word_cache, api_key, pc, resp>>
    /\ UNCHANGED <<cleanVars, parseVars, extVars>>

\* lines 111-125: one call to the service that answers `raw`; the loop returns
\* the cleaned text and the handler persists it
attempt_succeeds(raw) ==
    /\ pc = "retry"
    /\ req.attempt < MAX_RETRIES
    /\ calls' = calls + 1
    /\ Persist(req.op, req.word, Cleanup(raw))
    /\ UNCHANGED <<templates, settings, api_key>>
    /\ UNCHANGED <<cleanVars, parseVars, extVars>>

\* line 129, then lines 152-153 or 170-171
retries_exhausted ==
    /\ pc = "retry"
    /\ req.attempt >= MAX_RETRIES
    /\ Refuse(req.op, req.word, 500, "API request failed after 3 retries.")
    /\ UNCHANGED <<templates, settings, api_key, calls>>
    /\ UNCHANGED <<cleanVars, parseVars, extVars>>

StoreNext ==
    \/ \E n \in Names, c \in Contents : create_template(n, c)
    \/ \E id \in ReqIds, n \in Names, c \in Contents : update_template(id, n, c)
    \/ \E id \in ReqIds : delete_template(id)
    \/ \E id \in ReqIds : set_active_template(id)
    \/ \E w \in Words : analyze(w)
    \/ \E w \in Words : reanalyze(w)
    \/ attempt_fails
    \/ \E raw \in RawTexts : attempt_succeeds(raw)
    \/ retries_exhausted

----------------------------------------------------------------------------
(* The clean-up of lines 123-124, applied to a text and again to its result *)

Texts == UNION {[1..n -> Chars] : n \in 0..MaxLen}

CleanInit == text \in Texts /\ cleaned = <<>>

cleanup_again ==
    /\ Len(cleaned) < 2
    /\ cleaned' = Append(cleaned, Cleanup(IF cleaned = <<>> THEN text
                                          ELSE cleaned[Len(cleaned)]))
    /\ UNCHANGED <<text, storeVars, parseVars, extVars>>

----------------------------------------------------------------------------
(* parse_vocabulary_file, one line of the file per step *)

Eq3 == <<"=", "=", "=">>
Plus3 == <<"+", "+", "+">>
Dash3 == <<"-", "-", "-">>

RawLines == {Eq3 \o <<" ">>, Plus3, <<" ">> \o Dash3, <<" ">>, <<"T">>, <<"x", " ">>}

\* the scenario of the specification's section 8
TitleA == <<"T", "i", "t", "l", "e", " ", "A">>
Line1 == <<"l", "i", "n", "e", "1">>
Line2 == <<"l", "i", "n", "e", "2">>
LineX == <<"l", "i", "n", "e", "X">>
Scenario == <<Eq3 \o <<" ">>, TitleA, Plus3, Line1, Line2, Dash3, LineX>>

Files == UNION {[1..n -> RawLines] : n \in 0..MaxLines} \cup {Scenario}

StartsWith(s, p) == Len(s) >= Len(p) /\ SubSeq(s, 1, Len(p)) = p

IsContent(line) ==
    /\ line # <<>>
    /\ ~StartsWith(line, Eq3)
    /\ ~StartsWith(line, Plus3)
    /\ ~StartsWith(line, Dash3)

\* a test that forgets the title
CapturesUntitled(unit, group) == group # <<>> /\ unit # <<>>

\* line 91: current_group is not None and current_unit and current_unit['title']
Captures(unit, group) == group # <<>> /\ unit # <<>> /\ unit[1].title # <<>>

ParseInit ==
    /\ lines \in Files
    /\ pos = 0
    /\ units = <<>>
    /\ current_unit = <<>>
    /\ current_group = <<>>
    /\ previous_line = <<>>
    /\ note = "start"

\* lines 74-92: one iteration of the loop
parse_line ==
    /\ note \notin {"done", "missing"}
    /\ pos < Len(lines)
    /\ pos' = pos + 1
    /\ LET line == Strip(lines[pos + 1])
       IN  IF line = <<>>
           THEN /\ note' = "blank"
                /\ UNCHANGED <<units, current_unit, current_group, previous_line>>
           ELSE IF StartsWith(line, Eq3)
           THEN /\ units' = IF current_unit # <<>> THEN Append(units, current_unit[1])
                            ELSE units
                /\ current_unit' = <<[title |-> <<>>, groups |-> <<>>]>>
                /\ previous_line' = <<>>
                /\ note' = "unit"
                /\ UNCHANGED current_group
           ELSE IF StartsWith(line, Plus3)
           THEN /\ IF current_unit # <<>> /\ previous_line # <<>>
                   THEN /\ current_unit' = <<[current_unit[1] EXCEPT
                                                !.title = previous_line[1]]>>
                        /\ previous_line' = <<>>
                        /\ note' = "title"
                   ELSE /\ UNCHANGED <<current_unit, previous_line>>
                        /\ note' = "no title"
                /\ UNCHANGED <<units, current_group>>
           ELSE IF StartsWith(line, Dash3)
           THEN /\ current_unit' =
                      IF current_group # <<>> /\ current_unit # <<>>
                      THEN <<[current_unit[1] EXCEPT
                                !.groups = Append(@, current_group[1])]>>
                      ELSE current_unit
                /\ current_group' = << <<>> >>
                /\ note' = "group"
                /\ UNCHANGED <<units, previous_line>>
           ELSE /\ previous_line' = <<line>>
                /\ IF Captures(current_unit, current_group)
                   THEN /\ current_group' = <<Append(current_group[1], line)>>
                        /\ note' = "captured"
                   ELSE /\ UNCHANGED current_group
                        /\ note' = "skipped"
                /\ UNCHANGED <<units, current_unit>>
    /\ UNCHANGED <<lines, storeVars, cleanVars, extVars>>

\* lines 93-95: the end of the file
parse_end ==
    /\ note \notin {"done", "missing"}
    /\ pos = Len(lines)
    /\ LET last_unit == IF current_group # <<>> /\ current_unit # <<>>
                        THEN <<[current_unit[1] EXCEPT
                                  !.groups = Append(@, current_group[1])]>>
                        ELSE current_unit
       IN  /\ current_unit' = last_unit
           /\ units' = IF last_unit # <<>> THEN Append(units, last_unit[1]) ELSE units
    /\ note' = "done"
    /\ UNCHANGED <<lines, pos, current_group, previous_line, storeVars, cleanVars,
                   extVars>>

\* lines 70-71: no file at the path
parse_missing ==
    /\ note = "start"
    /\ pos = 0
    /\ note' = "missing"
    /\ UNCHANGED <<lines, pos, units, current_unit, current_group, previous_line,
                   storeVars, cleanVars, extVars>>

StoreIdle ==
    /\ templates = NoTemplates
    /\ settings = <<>>
    /\ word_cache = {}
    /\ api_key = FALSE
    /\ pc = "idle"
    /\ req = NoReq
    /\ calls = 0
    /\ resp = Pending

----------------------------------------------------------------------------
(* /tts: the audio cache.  isalnum tells the letters of a word from the    *)
(* rest; ".mp3" is one character of the model.                             *)

Alnum == {"c", "a", "t", "C"}
CatBang == <<"c", "a", "t", "!">>
CSpaced == <<"c", " ", "a", " ", "t">>
CapCat == <<"C", "a", "t">>
AudioWords == {<<>>, CatBang, CSpaced, CapCat, <<"!">>}

\* what a /tts request meets once the hit test has failed: the speech call
\* raises; it answers and the file is written; it answers and the write fails
\* before the file is created, after it is created, or part way
TtsOutcomes == {"call fails", "written", "not created", "empty", "partial"}

IsAlnum(c) == c \in Alnum

\* a key that keeps every character of the word
FilenameRaw(word) == word \o <<".mp3">>

\* line 188: "".join(c for c in word if c.isalnum()) + '.mp3'
Filename(word) == SelectSeq(word, IsAlnum) \o <<".mp3">>

\* a test that never finds the file
ExistsNever(files, filename) == FALSE

\* line 191: os.path.exists(filepath)
Exists(files, filename) == filename \in DOMAIN files

\* line 203: the directory once `bytes` of the audio of `word` are at `filename`
Written(files, filename, word, bytes) ==
    [f \in DOMAIN files \cup {filename} |->
        IF f = filename THEN [of |-> word, bytes |-> bytes] ELSE files[f]]

AudioInit ==
    /\ audio_files = [f \in {} |-> [of |-> <<>>, bytes |-> "all"]]
    /\ tts_calls = 0
    /\ tts_resp = Pending

\* lines 179-209
tts(word, outcome) ==
    /\ pc = "idle"
    /\ LET filename == Filename(word)
       IN  IF word = <<>>
           THEN /\ tts_resp' = [op |-> "tts", status |-> 400, word |-> word]
                /\ tts_calls' = 0
                /\ UNCHANGED audio_files
           ELSE IF ~api_key
           THEN /\ tts_resp' = [op |-> "tts", status |-> 503, word |-> word]
                /\ tts_calls' = 0
                /\ UNCHANGED audio_files
           ELSE IF Exists(audio_files, filename)
           THEN /\ tts_resp' = [op |-> "tts", status |-> 200, word |-> word,
                                file |-> audio_files[filename]]
                /\ tts_calls' = 0
                /\ UNCHANGED audio_files
           ELSE /\ tts_calls' = 1
                /\ IF outcome = "written"
                   THEN /\ audio_files' = Written(audio_files, filename, word, "all")
                        /\ tts_resp' = [op |-> "tts", status |-> 200, word |-> word,
                                        file |-> [of |-> word, bytes |-> "all"]]
                   ELSE /\ audio_files' =
                              IF outcome \in {"empty", "partial"}
                              THEN Written(audio_files, filename, word, outcome)
                              ELSE audio_files
                        /\ tts_resp' = [op |-> "tts", status |-> 500, word |-> word]
    /\ UNCHANGED <<storeVars, cleanVars, parseVars, concVars>>

----------------------------------------------------------------------------
(* Concurrent DELETE /api/templates/<id> requests, one SQL statement per   *)
(* step.  Each request has its own connection (get_db): its SELECTs run    *)
(* outside any transaction and see the committed rows; its first UPDATE or *)
(* DELETE opens a transaction and takes the write lock, which the commit   *)
(* of line 260 releases.  `templates` and `settings` are the committed     *)
(* rows, `work` the rows of the open transaction, `lock` its owner.        *)

Procs == {1, 2}

\* the stores earlier requests can leave: rows with distinct names and ids
TemplateRows ==
    UNION {{ts \in [S -> [name : Names, content : Contents]] :
               \A t1, t2 \in S : ts[t1].name = ts[t2].name => t1 = t2} :
           S \in SUBSET Ids}

\* a request that has not executed a statement yet
DeleteRequest(id) ==
    [op |-> "delete", pc |-> "count", id |-> id, active_id |-> 0,
     new_active |-> 0, status |-> 0]

Goto(p, label) == [procs EXCEPT ![p].pc = label]

Answer(p, status) == [procs EXCEPT ![p].pc = "done", ![p].status = status]

\* line 251: the count check
d_count(p) ==
    /\ procs[p].op = "delete" /\ procs[p].pc = "count"
    /\ procs' = IF IsLastTemplate(templates) THEN Answer(p, 400)
                ELSE Goto(p, "read_active")
    /\ UNCHANGED <<templates, settings, lock, work, last_write>>
    /\ UNCHANGED <<word_cache, api_key, pc, req, calls, resp>>
    /\ UNCHANGED <<cleanVars, parseVars, audioVars>>

\* line 254: SELECT active_template_id FROM app_settings WHERE id = 1
d_read_active(p) ==
    /\ procs[p].op = "delete" /\ procs[p].pc = "read_active"
    /\ procs' = IF settings = <<>> THEN Answer(p, 500)
                ELSE [procs EXCEPT
                        ![p].active_id = settings[1],
                        ![p].pc = IF settings[1] = procs[p].id
                                  THEN "select_new" ELSE "delete"]
    /\ UNCHANGED <<templates, settings, lock, work, last_write>>
    /\ UNCHANGED <<word_cache, api_key, pc, req, calls, resp>>
    /\ UNCHANGED <<cleanVars, parseVars, audioVars>>

\* line 256; when no other row is left fetchone() is None and line 257 raises
\* before its UPDATE runs
d_select_new(p) ==
    /\ procs[p].op = "delete" /\ procs[p].pc = "select_new"
    /\ procs' = IF DOMAIN templates \ {procs[p].id} = {} THEN Answer(p, 500)
                ELSE [procs EXCEPT
                        ![p].new_active = NewActive(templates, procs[p].id),
                        ![p].pc = "update"]
    /\ UNCHANGED <<templates, settings, lock, work, last_write>>
    /\ UNCHANGED <<word_cache, api_key, pc, req, calls, resp>>
    /\ UNCHANGED <<cleanVars, parseVars, audioVars>>

\* line 257: the UPDATE opens the transaction
d_update(p) ==
    /\ procs[p].op = "delete" /\ procs[p].pc = "update"
    /\ lock = 0
    /\ lock' = p
    /\ work' = <<[templates |-> templates,
                  settings |-> IF settings = <<>> THEN <<>>
                               ELSE <<procs[p].new_active>>]>>
    /\ procs' = Goto(p, "delete")
    /\ UNCHANGED <<templates, settings, last_write>>
    /\ UNCHANGED <<word_cache, api_key, pc, req, calls, resp>>
    /\ UNCHANGED <<cleanVars, parseVars, audioVars>>

\* line 259: the DELETE, in the transaction the UPDATE opened or in its own
d_delete(p) ==
    /\ procs[p].op = "delete" /\ procs[p].pc = "delete"
    /\ lock \in {0, p}
    /\ LET rows == IF lock = p THEN work[1]
                   ELSE [templates |-> templates, settings |-> settings]
           left == DOMAIN rows.templates \ {procs[p].id}
       IN  work' = <<[templates |-> [t \in left |-> rows.templates[t]],
                      settings |-> rows.settings]>>
    /\ lock' = p
    /\ procs' = Goto(p, "commit")
    /\ UNCHANGED <<templates, settings, last_write>>
    /\ UNCHANGED <<word_cache, api_key, pc, req, calls, resp>>
    /\ UNCHANGED <<cleanVars, parseVars, audioVars>>

\* line 260: the commit publishes both statements at once
d_commit(p) ==
    /\ procs[p].op = "delete" /\ procs[p].pc = "commit"
    /\ lock = p
    /\ templates' = work[1].templates
    /\ settings' = work[1].settings
    /\ lock' = 0
    /\ work' = <<>>
    /\ procs' = Answer(p, 200)
    /\ UNCHANGED last_write
    /\ UNCHANGED <<word_cache, api_key, pc, req, calls, resp>>
    /\ UNCHANGED <<cleanVars, parseVars, audioVars>>

\* lines 257, 259: the other connection keeps the write lock past the busy
\* timeout of sqlite3.connect; the statement raises OperationalError
d_busy(p) ==
    /\ procs[p].op = "delete" /\ procs[p].pc \in {"update", "delete"}
    /\ lock \notin {0, p}
    /\ procs' = Answer(p, 500)
    /\ UNCHANGED <<templates, settings, lock, work, last_write>>
    /\ UNCHANGED <<word_cache, api_key, pc, req, calls, resp>>
    /\ UNCHANGED <<cleanVars, parseVars, audioVars>>

\* lines 257-260: the request dies inside its transaction, which is rolled back
d_crash(p) ==
    /\ procs[p].op = "delete" /\ procs[p].pc \in {"delete", "commit"}
    /\ lock = p
    /\ lock' = 0
    /\ work' = <<>>
    /\ procs' = [procs EXCEPT ![p].pc = "crashed"]
    /\ UNCHANGED <<templates, settings, last_write>>
    /\ UNCHANGED <<word_cache, api_key, pc, req, calls, resp>>
    /\ UNCHANGED <<cleanVars, parseVars, audioVars>>

----------------------------------------------------------------------------
(* Start-up on a store left by an earlier run *)

\* lines 277-297; resp.created tells whether the template table was empty
boot(default_content) ==
    /\ pc = "boot"
    /\ \E s \in initialize_app(templates, settings, default_content) :
          /\ templates' = s.templates
          /\ settings' = s.settings
    /\ resp' = [op |-> "boot", status |-> 200, created |-> (DOMAIN templates = {})]
    /\ pc' = "idle"
    /\ UNCHANGED <<word_cache, api_key, req, calls>>
    /\ UNCHANGED <<cleanVars, parseVars, extVars>>

----------------------------------------------------------------------------
(* Two concurrent POST /analyze requests, one statement per step, on the   *)
(* connections and the write lock described above.  last_write is the text *)
(* of the latest commit to word_cache.                                     *)

\* a request that has not executed a statement yet
AnalyzeRequest(word) ==
    [op |-> "analyze", pc |-> "check", word |-> word, content |-> "",
     attempt |-> 0, calls |-> 0, text |-> <<>>, status |-> 0]

\* line 142: the handler's lookup
a_check(p) ==
    /\ procs[p].op = "analyze" /\ procs[p].pc = "check"
    /\ LET cached == CacheLookup(word_cache, procs[p].word)
       IN  procs' = IF cached # <<>>
                    THEN [procs EXCEPT ![p].pc = "done", ![p].status = 200,
                                       ![p].text = cached[1]]
                    ELSE Goto(p, "template")
    /\ UNCHANGED <<word_cache, lock, work, last_write>>
    /\ UNCHANGED <<templates, settings, api_key, pc, req, calls, resp>>
    /\ UNCHANGED <<cleanVars, parseVars, audioVars>>

\* lines 147-149
a_template(p) ==
    /\ procs[p].op = "analyze" /\ procs[p].pc = "template"
    /\ LET active_template == ActiveRow(templates, settings)
       IN  procs' = IF active_template = <<>> THEN Answer(p, 400)
                    ELSE [procs EXCEPT ![p].pc = "recheck",
                                       ![p].content = active_template[1].content]
    /\ UNCHANGED <<word_cache, lock, work, last_write>>
    /\ UNCHANGED <<templates, settings, api_key, pc, req, calls, resp>>
    /\ UNCHANGED <<cleanVars, parseVars, audioVars>>

\* lines 100-106: the second lookup, then the key check
a_recheck(p) ==
    /\ procs[p].op = "analyze" /\ procs[p].pc = "recheck"
    /\ LET cached == CacheLookup(word_cache, procs[p].word)
       IN  procs' = IF cached # <<>>
                    THEN [procs EXCEPT ![p].pc = "insert", ![p].text = cached[1]]
                    ELSE IF ~api_key THEN Answer(p, 500)
                    ELSE Goto(p, "retry")
    /\ UNCHANGED <<word_cache, lock, work, last_write>>
    /\ UNCHANGED <<templates, settings, api_key, pc, req, calls, resp>>
    /\ UNCHANGED <<cleanVars, parseVars, audioVars>>

\* lines 111-120, 126-128
a_attempt_fails(p) ==
    /\ procs[p].op = "analyze" /\ procs[p].pc = "retry"
    /\ procs[p].attempt < MAX_RETRIES
    /\ procs' = [procs EXCEPT ![p].attempt = @ + 1, ![p].calls = @ + 1]
    /\ UNCHANGED <<word_cache, lock, work, last_write>>
    /\ UNCHANGED <<templates, settings, api_key, pc, req, calls, resp>>
    /\ UNCHANGED <<cleanVars, parseVars, audioVars>>

\* lines 111-125
a_attempt_succeeds(p, raw) ==
    /\ procs[p].op = "analyze" /\ procs[p].pc = "retry"
    /\ procs[p].attempt < MAX_RETRIES
    /\ procs' = [procs EXCEPT ![p].calls = @ + 1, ![p].text = Cleanup(raw),
                              ![p].pc = "insert"]
    /\ UNCHANGED <<word_cache, lock, work, last_write>>
    /\ UNCHANGED <<templates, settings, api_key, pc, req, calls, resp>>
    /\ UNCHANGED <<cleanVars, parseVars, audioVars>>

\* line 129, then lines 152-153
a_retries_exhausted(p) ==
    /\ procs[p].op = "analyze" /\ procs[p].pc = "retry"
    /\ procs[p].attempt >= MAX_RETRIES
    /\ procs' = Answer(p, 500)
    /\ UNCHANGED <<word_cache, lock, work, last_write>>
    /\ UNCHANGED <<templates, settings, api_key, pc, req, calls, resp>>
    /\ UNCHANGED <<cleanVars, parseVars, audioVars>>

\* line 155: the INSERT OR REPLACE opens the transaction
a_insert(p) ==
    /\ procs[p].op = "analyze" /\ procs[p].pc = "insert"
    /\ lock = 0
    /\ lock' = p
    /\ work' = <<InsertOrReplace(word_cache, procs[p].word, procs[p].text)>>
    /\ procs' = Goto(p, "commit")
    /\ UNCHANGED <<word_cache, last_write>>
    /\ UNCHANGED <<templates, settings, api_key, pc, req, calls, resp>>
    /\ UNCHANGED <<cleanVars, parseVars, audioVars>>

\* line 155: the other connection keeps the write lock past the busy timeout
a_busy(p) ==
    /\ procs[p].op = "analyze" /\ procs[p].pc = "insert"
    /\ lock \notin {0, p}
    /\ procs' = Answer(p, 500)
    /\ UNCHANGED <<word_cache, lock, work, last_write>>
    /\ UNCHANGED <<templates, settings, api_key, pc, req, calls, resp>>
    /\ UNCHANGED <<cleanVars, parseVars, audioVars>>

\* lines 156-159
a_commit(p) ==
    /\ procs[p].op = "analyze" /\ procs[p].pc = "commit"
    /\ lock = p
    /\ word_cache' = work[1]
    /\ last_write' = <<procs[p].text>>
    /\ lock' = 0
    /\ work' = <<>>
    /\ procs' = Answer(p, 200)
    /\ UNCHANGED <<templates, settings, api_key, pc, req, calls, resp>>
    /\ UNCHANGED <<cleanVars, parseVars, audioVars>>

----------------------------------------------------------------------------
(* Specifications *)

CleanIdle == text = <<>> /\ cleaned = <<>>
ParseIdle ==
    /\ lines = <<>>
    /\ pos = 0
    /\ units = <<>>
    /\ current_unit = <<>>
    /\ current_group = <<>>
    /\ previous_line = <<>>
    /\ note = "start"

\* the retry loop runs on: each call returns, fails or times out (TIMEOUT)
RetryLoop == attempt_fails \/ (\E raw \in RawTexts : attempt_succeeds(raw))
                           \/ retries_exhausted

AudioIdle == AudioInit
ConcIdle == procs = <<>> /\ lock = 0 /\ work = <<>> /\ last_write = <<>>
ExtIdle == AudioIdle /\ ConcIdle

Init == StoreInit /\ CleanIdle /\ ParseIdle /\ ExtIdle
Next == StoreNext
Spec == Init /\ [][Next]_vars
SpecFair == Spec /\ WF_vars(RetryLoop)

\* the template management requests alone
NextTemplates ==
    \/ \E n \in Names, c \in Contents : create_template(n, c)
    \/ \E id \in ReqIds, n \in Names, c \in Contents : update_template(id, n, c)
    \/ \E id \in ReqIds : delete_template(id)
    \/ \E id \in ReqIds : set_active_template(id)
SpecTemplates == Init /\ [][NextTemplates]_vars

InitClean == StoreIdle /\ CleanInit /\ ParseIdle /\ ExtIdle
NextClean == cleanup_again
SpecClean == InitClean /\ [][NextClean]_vars

InitAudio ==
    /\ StoreIdle!1 /\ StoreIdle!2 /\ StoreIdle!3
    /\ api_key \in BOOLEAN
    /\ StoreIdle!5 /\ StoreIdle!6 /\ StoreIdle!7 /\ StoreIdle!8
    /\ CleanIdle /\ ParseIdle /\ AudioInit /\ ConcIdle
NextAudio == \E w \in AudioWords, o \in TtsOutcomes : tts(w, o)
SpecAudio == InitAudio /\ [][NextAudio]_vars

\* two delete requests arrive at a store whose active setting is valid
InitDelete ==
    /\ templates \in TemplateRows
    /\ templates # NoTemplates
    /\ \E a \in DOMAIN templates : settings = <<a>>
    /\ StoreIdle!3 /\ StoreIdle!4 /\ StoreIdle!5 /\ StoreIdle!6
    /\ StoreIdle!7 /\ StoreIdle!8
    /\ CleanIdle /\ ParseIdle /\ AudioIdle
    /\ procs \in [Procs -> {DeleteRequest(id) : id \in Ids}]
    /\ lock = 0
    /\ work = <<>>
    /\ last_write = <<>>
NextDelete ==
    \E p \in Procs :
        \/ d_count(p)
        \/ d_read_active(p)
        \/ d_select_new(p)
        \/ d_update(p)
        \/ d_delete(p)
        \/ d_commit(p)
        \/ d_busy(p)
        \/ d_crash(p)
SpecDelete == InitDelete /\ [][NextDelete]_vars

\* the tables an earlier run left: any rows, with or without a settings row
InitBoot ==
    /\ templates \in TemplateRows
    /\ settings \in {<<>>} \cup {<<a>> : a \in ReqIds}
    /\ StoreIdle!3 /\ StoreIdle!4
    /\ pc = "boot"
    /\ StoreIdle!6 /\ StoreIdle!7 /\ StoreIdle!8
    /\ CleanIdle /\ ParseIdle /\ ExtIdle
NextBoot == \E c \in Contents : boot(c)
SpecBoot == InitBoot /\ [][NextBoot]_vars

\* two /analyze requests for one uncached word arrive at the store start-up left
InitConc ==
    /\ StoreInit
    /\ CleanIdle /\ ParseIdle /\ AudioIdle
    /\ \E w \in Words : procs = [p \in Procs |-> AnalyzeRequest(w)]
    /\ lock = 0
    /\ work = <<>>
    /\ last_write = <<>>
NextConc ==
    \E p \in Procs :
        \/ a_check(p)
        \/ a_template(p)
        \/ a_recheck(p)
        \/ a_attempt_fails(p)
        \/ \E raw \in RawTexts : a_attempt_succeeds(p, raw)
        \/ a_retries_exhausted(p)
        \/ a_insert(p)
        \/ a_busy(p)
        \/ a_commit(p)
SpecConc == InitConc /\ [][NextConc]_vars

InitParse == StoreIdle /\ CleanIdle /\ ParseInit /\ ExtIdle
NextParse == parse_line \/ parse_end \/ parse_missing
SpecParse == InitParse /\ [][NextParse]_vars

----------------------------------------------------------------------------
(* Claims about the template store *)

\* C1: in every reachable state the active-template setting references a
\* template that exists, so that getActive() returns a template, never 404.
C1_ActiveAlwaysResolves == get_active_template.status = 200

\* C2: a delete(id) of the active template, with at least two templates in the
\* table, succeeds and leaves the active setting on the lowest id among the
\* templates that remain; getActive() then returns an existing template other
\* than the deleted one.
C2_DeleteActiveRepoints ==
    [][\A id \in ReqIds :
          (delete_template(id) /\ Cardinality(DOMAIN templates) >= 2
                               /\ settings = <<id>>)
          => /\ resp'.status = 200
             /\ id \notin DOMAIN templates'
             /\ DOMAIN templates' = DOMAIN templates \ {id}
             /\ settings'[1] \in DOMAIN templates'
             /\ \A t \in DOMAIN templates' : settings'[1] <= t
             /\ get_active_template'.status = 200
             /\ get_active_template'.id # id]_vars

\* C2 witness: the active template, an existing row, was deleted while two
\* others remained, and the setting was repointed.
C2_Witness ==
    /\ resp.op = "delete"
    /\ resp.status = 200
    /\ resp.existed
    /\ resp.active_id = resp.id
    /\ Cardinality(DOMAIN templates) >= 2
    /\ settings # <<resp.id>>

\* C3: the template table is never empty, and a delete(id) made while exactly
\* one template remains is refused (400, LastTemplateError) and changes
\* neither the template table nor the active setting.
C3_NeverEmpty ==
    /\ [](DOMAIN templates # {})
    /\ [][\A id \in ReqIds :
             (delete_template(id) /\ Cardinality(DOMAIN templates) = 1)
             => /\ resp'.status = 400
                /\ UNCHANGED <<templates, settings>>]_vars

\* C3 witness: a delete of the only template (its own id) was refused.
C3_Witness ==
    /\ resp.op = "delete"
    /\ resp.status = 400
    /\ DOMAIN templates = {resp.id}

----------------------------------------------------------------------------
(* Claims about the analysis cache and the generation call *)

AnalysisOps == {"analyze", "reanalyze"}

\* what lines 123-124 make of each answer of RawTexts (computed with Python's re)
ExpectedClean(raw) ==
    CASE raw = <<"a">> -> <<"a">>
      [] raw = <<"PRE", "a", "SUF", " ", "a", " ">> -> <<"a">>
      [] raw = <<"#", "a", "\n", "a", "a">> -> <<"a", "a">>

\* C4: when an analysis request, forced or not, ends in an error, the word
\* cache is exactly what it was when the request began.
C4_FailureLeavesCache ==
    [][(resp'.op \in AnalysisOps /\ resp'.status # 200)
       => word_cache' = (IF pc = "retry" THEN req.before ELSE word_cache)]_vars

\* C4 witness: a forced re-analysis of a cached word failed on all attempts.
C4_Witness ==
    /\ resp.op = "reanalyze"
    /\ resp.status = 500
    /\ calls = 3
    /\ \E r \in word_cache : r.word = resp.word

\* C5: a successful non-forced request for an uncached word stores the text it
\* returns under the word; a non-forced request for a cached word returns the
\* stored text with status 200, calls the service zero times and writes
\* nothing; and a stored entry changes only by a successful forced re-analysis
\* of its word.
C5_CacheHit ==
    [][/\ \A raw \in RawTexts :
             (attempt_succeeds(raw) /\ req.op = "analyze")
             => /\ resp'.status = 200
                /\ resp'.analysis = <<"html", ExpectedClean(raw)>>
                /\ [word |-> req.word, analysis |-> ExpectedClean(raw)] \in word_cache'
       /\ \A w \in Words : \A r \in word_cache :
             (r.word = w /\ analyze(w))
             => /\ resp'.status = 200
                /\ resp'.analysis = <<"html", r.analysis>>
                /\ "error" \notin DOMAIN resp'
                /\ calls' = 0
                /\ pc' = "idle"
                /\ word_cache' = word_cache
       /\ \A r \in word_cache :
             r \notin word_cache'
             => /\ resp'.op = "reanalyze"
                /\ resp'.status = 200
                /\ resp'.word = r.word]_vars

\* C5 witness: a non-forced request was answered from the cache, with no call.
C5_Witness ==
    /\ resp.op = "analyze"
    /\ resp.status = 200
    /\ calls = 0
    /\ \E r \in word_cache : r.word = resp.word /\ resp.analysis = <<"html", r.analysis>>

\* C6: a forced re-analysis that succeeds leaves exactly one entry for the
\* word, holding the new text, and a non-forced request made next returns that
\* new text.
C6_ForcedOverwrite ==
    [][/\ \A raw \in RawTexts :
             (attempt_succeeds(raw) /\ req.op = "reanalyze")
             => /\ resp'.analysis = <<"markdown", ExpectedClean(raw)>>
                /\ {r \in word_cache' : r.word = req.word}
                      = {[word |-> req.word, analysis |-> ExpectedClean(raw)]}
       /\ \A w \in Words :
             (resp.op = "reanalyze" /\ resp.status = 200 /\ resp.word = w /\ analyze(w))
             => /\ resp'.status = 200
                /\ resp'.analysis = <<"html", resp.analysis[2]>>
                /\ calls' = 0]_vars

\* C6 witness: a forced re-analysis replaced a cached text by a different one.
C6_Witness ==
    /\ resp.op = "reanalyze"
    /\ resp.status = 200
    /\ resp.replaced # <<>>
    /\ resp.replaced[1] # resp.analysis[2]
    /\ {r \in word_cache : r.word = resp.word}
          = {[word |-> resp.word, analysis |-> resp.analysis[2]]}

\* C7: after two failed attempts a third attempt is made; the first attempt
\* that succeeds ends the request with status 200, no error and the cleaned
\* answer, having made one call per attempt; and no call is made outside the
\* retry loop, hence none after the success.
C7_FirstSuccessReturns ==
    /\ [][\A raw \in RawTexts :
             attempt_succeeds(raw)
             => /\ resp'.status = 200
                /\ "error" \notin DOMAIN resp'
                /\ resp'.analysis[2] = ExpectedClean(raw)
                /\ calls' = req.attempt + 1
                /\ pc' = "idle"]_vars
    /\ [][calls' > calls => pc = "retry"]_vars
    /\ [](pc = "retry" /\ req.attempt <= 2
             => ENABLED (\E raw \in RawTexts : attempt_succeeds(raw)))

\* C7 witness: a request succeeded on its third call.
C7_Witness ==
    /\ resp.op \in AnalysisOps
    /\ resp.status = 200
    /\ calls = 3

\* C8: a request never makes a 4th call; it answers "retries exhausted" only
\* after exactly 3 calls, with no text; and the retry loop always ends.
C8_AtMostThreeAttempts ==
    /\ [](calls <= 3)
    /\ []((resp.op \in AnalysisOps /\ resp.status = 500
              /\ resp.error = "API request failed after 3 retries.")
            => calls = 3 /\ "analysis" \notin DOMAIN resp)
    /\ [][pc = "retry" /\ pc' = "idle" /\ resp'.status # 200 => calls = 3]_vars
    /\ (pc = "retry" ~> pc = "idle")

\* C8 witness: a request gave up after three failed calls.
C8_Witness ==
    /\ resp.op \in AnalysisOps
    /\ resp.status = 500
    /\ resp.error = "API request failed after 3 retries."
    /\ calls = 3

----------------------------------------------------------------------------
(* Claims about the clean-up and the parser *)

\* C9: the clean-up is idempotent: cleaning a cleaned text changes nothing.
C9_CleanupIdempotent == Len(cleaned) = 2 => cleaned[2] = cleaned[1]

\* C10: a content line (non-blank, no marker) is appended to the current group
\* exactly when, as it is read, a unit is open, that unit has a non-empty
\* title and a group is open; otherwise no group changes.  The scenario
\* "=== / Title A / +++ / line1 / line2 / --- / lineX" therefore parses to one
\* unit titled "Title A" whose only group is <<"lineX">>.
C10_CaptureRule ==
    /\ [][(parse_line /\ IsContent(Strip(lines[pos + 1])))
          => LET line == Strip(lines[pos + 1])
                 open == /\ current_unit # <<>>
                         /\ current_unit[1].title # <<>>
                         /\ current_group # <<>>
             IN  /\ open => current_group' = <<Append(current_group[1], line)>>
                 /\ ~open => current_group' = current_group
                 /\ UNCHANGED <<units, current_unit>>]_vars
    /\ []((lines = Scenario /\ note = "done")
            => units = <<[title |-> TitleA, groups |-> << <<LineX>> >>]>>)

\* C10 witness: the scenario was parsed to its end, and its last line captured.
C10_Witness ==
    /\ lines = Scenario
    /\ note = "done"
    /\ Len(units) = 1
    /\ current_group = << <<LineX>> >>

----------------------------------------------------------------------------
(* Claims about the audio cache *)

CatKey == <<"c", "a", "t", ".mp3">>

\* C11: with a credential, a /tts request for a word whose file exists returns
\* that file with zero calls to the speech service and writes nothing;
\* otherwise it makes exactly one call, and when it succeeds the file exists
\* afterwards and holds the audio returned.
C11_AudioHitOrOneCall ==
    [][\A w \in AudioWords \ {<<>>} : \A o \in TtsOutcomes :
          (tts(w, o) /\ api_key)
          => LET key == SelectSeq(w, LAMBDA c : c \in Alnum) \o <<".mp3">>
             IN  IF key \in DOMAIN audio_files
                 THEN /\ tts_resp'.status = 200
                      /\ tts_resp'.file = audio_files[key]
                      /\ tts_calls' = 0
                      /\ audio_files' = audio_files
                 ELSE /\ tts_calls' = 1
                      /\ tts_resp'.status = 200
                         => /\ key \in DOMAIN audio_files'
                            /\ audio_files'[key] = tts_resp'.file]_vars

\* C11 witness: a request was served from the file a previous request wrote.
C11_Witness ==
    /\ tts_resp.status = 200
    /\ tts_calls = 0
    /\ tts_resp.file.bytes = "all"

\* C12: after a /tts request that failed during synthesis or during the write
\* there is no file, empty or partial, at the word's path.
C12_NoPartialFile ==
    tts_resp.status = 500 => Filename(tts_resp.word) \notin DOMAIN audio_files

\* C13: the key of a word is its alphanumeric characters, case preserved, plus
\* the extension; "cat!" and "c a t" have the same key, "Cat" another; and a
\* request for a word whose key holds the audio written for another word
\* returns that audio with zero calls.
C13_KeyCollision ==
    [][/\ Filename(CatBang) = CatKey
       /\ Filename(CSpaced) = CatKey
       /\ Filename(CapCat) = <<"C", "a", "t", ".mp3">>
       /\ \A w1, w2 \in {CatBang, CSpaced} : \A o \in TtsOutcomes :
             (/\ w1 # w2
              /\ api_key
              /\ CatKey \in DOMAIN audio_files
              /\ audio_files[CatKey] = [of |-> w1, bytes |-> "all"]
              /\ tts(w2, o))
             => /\ tts_resp'.status = 200
                /\ tts_resp'.file = [of |-> w1, bytes |-> "all"]
                /\ tts_calls' = 0]_vars

\* C13 witness: a request for one word was answered with the audio of another.
C13_Witness ==
    /\ tts_resp.status = 200
    /\ tts_calls = 0
    /\ tts_resp.file.bytes = "all"
    /\ tts_resp.file.of # tts_resp.word

----------------------------------------------------------------------------
(* Claims about template names *)

NameTaken(name, id) == \E t \in DOMAIN templates : t # id /\ templates[t].name = name

NamesDistinct ==
    \A t1, t2 \in DOMAIN templates : templates[t1].name = templates[t2].name => t1 = t2

\* C14 as stated: create and update, whatever the id update is given, answer
\* DuplicateName whenever the name is the name of a template other than that
\* id, leaving the templates and the active setting unchanged.
C14_DuplicateNameAnyId ==
    [][\A n \in Names : \A c \in Contents :
          /\ (create_template(n, c) /\ NameTaken(n, 0))
             => resp'.status = 409 /\ UNCHANGED <<templates, settings>>
          /\ \A id \in ReqIds :
                (update_template(id, n, c) /\ NameTaken(n, id))
                => resp'.status = 409 /\ UNCHANGED <<templates, settings>>]_vars

\* C14: create, and update of an existing template, answer DuplicateName
\* whenever the name is the name of another existing template, and then leave
\* the templates and the active setting unchanged; template names are
\* pairwise distinct in every reachable state.
C14_DuplicateName ==
    /\ []NamesDistinct
    /\ [][\A n \in Names : \A c \in Contents :
             /\ (create_template(n, c) /\ NameTaken(n, 0))
                => resp'.status = 409 /\ UNCHANGED <<templates, settings>>
             /\ \A id \in DOMAIN templates :
                   (update_template(id, n, c) /\ NameTaken(n, id))
                   => resp'.status = 409 /\ UNCHANGED <<templates, settings>>]_vars

\* C14 witness: the update of an existing template to a name in use was refused.
C14_Witness ==
    /\ resp.op = "update"
    /\ resp.status = 409
    /\ resp.id \in DOMAIN templates
    /\ Cardinality(DOMAIN templates) >= 2

----------------------------------------------------------------------------
(* Claims about concurrent deletes *)

ActiveExists == settings # <<>> /\ settings[1] \in DOMAIN templates

\* C15: the repoint of the active setting and the removal of the active
\* template become visible to other requests together or not at all, also
\* when a request dies between the two statements: the committed rows never
\* show an active setting on a missing template, the setting never moves
\* while the template it left is still there, and the template it is on is
\* never removed without the setting moving to an existing one.
C15_DeleteActiveAtomic ==
    /\ []ActiveExists
    /\ [][/\ settings' # settings => settings[1] \notin DOMAIN templates'
          /\ (ActiveExists /\ settings[1] \notin DOMAIN templates')
             => (settings' # settings /\ ActiveExists')]_vars

\* C18: under every interleaving of concurrent delete requests the committed
\* template set is never empty and the active setting references one of its
\* templates.
C18_ConcurrentDeletes ==
    /\ DOMAIN templates # {}
    /\ settings # <<>>
    /\ settings[1] \in DOMAIN templates

----------------------------------------------------------------------------
(* Claims about start-up *)

\* C16: once initialize_app has completed, whatever the tables held before,
\* at least one template exists and the active setting references an existing
\* template; when the template table was empty the new Default template is
\* the active one.
C16_BootRestoresInvariants ==
    (pc = "idle" /\ resp.op = "boot")
    => /\ DOMAIN templates # {}
       /\ settings # <<>>
       /\ settings[1] \in DOMAIN templates
       /\ resp.created => templates[settings[1]].name = "Default"

----------------------------------------------------------------------------
(* Claims about concurrent analysis requests *)

BothCompleted == \A p \in Procs : procs[p].op = "analyze" /\ procs[p].pc = "done"

\* C17: whatever the interleaving of two non-forced analysis requests for one
\* uncached word, once both have completed and one of them has committed the
\* cache holds exactly one row for the word, its text is the one written by
\* the latest commit, and that is what a later non-forced lookup finds.
C17_LastWriteWins ==
    (BothCompleted /\ last_write # <<>>)
    => \A p \in Procs :
          /\ {r \in word_cache : r.word = procs[p].word}
                = {[word |-> procs[p].word, analysis |-> last_write[1]]}
          /\ \E r \in word_cache : r.word = procs[p].word /\ r.analysis = last_write[1]
          /\ Cardinality(word_cache) = 1

\* C17 witness: both requests called the service, got different texts and
\* committed; the second commit replaced the text of the first.
C17_Witness ==
    /\ BothCompleted
    /\ \A p \in Procs : procs[p].status = 200 /\ procs[p].calls >= 1
    /\ procs[1].text # procs[2].text
    /\ last_write # <<>>

----------------------------------------------------------------------------
(* Claims about the units of the outline *)

\* the unit a line of the file lies in: the number of === lines up to it
UnitOfLine(i) ==
    Cardinality({j \in 1..i : StartsWith(Strip(lines[j]), Eq3)})

\* the --- lines of unit k, each of which opens a group
GroupsOpenedIn(k) ==
    {i \in 1..Len(lines) : UnitOfLine(i) = k /\ StartsWith(Strip(lines[i]), Dash3)}

\* the content lines between the === of unit k and the next ===
ContentOf(k) ==
    {Strip(lines[i]) : i \in {j \in 1..Len(lines) :
                                 UnitOfLine(j) = k /\ IsContent(Strip(lines[j]))}}

\* C19: in the outline parse returns for a file whose --- lines all come
\* after the first ===, every group belongs to the unit in which it was
\* opened: unit k holds one group for each --- line between its === and the
\* next, and its groups hold only content lines read there.
C19_GroupsStayInUnit ==
    (note = "done" /\ GroupsOpenedIn(0) = {})
    => \A k \in 1..Len(units) :
          /\ Len(units[k].groups) = Cardinality(GroupsOpenedIn(k))
          /\ \A g \in 1..Len(units[k].groups) :
                \A n \in 1..Len(units[k].groups[g]) :
                   units[k].groups[g][n] \in ContentOf(k)

----------------------------------------------------------------------------
(* Claims about the frame of the template operations *)

\* C20: create, update, delete and setActive never modify the word cache;
\* only an analysis request that succeeds writes to it; and a non-forced
\* request for a cached word returns the cached text unchanged with zero
\* generation calls, whatever the templates and the active setting are by then.
C20_TemplateOpsLeaveCache ==
    [][/\ word_cache' # word_cache => ~NextTemplates
       /\ word_cache' # word_cache
          => (resp'.op \in AnalysisOps /\ resp'.status = 200)
       /\ \A r \in word_cache :
             analyze(r.word)
             => /\ resp'.status = 200
                /\ resp'.analysis = <<"html", r.analysis>>
                /\ calls' = 0
                /\ pc' = "idle"
                /\ word_cache' = word_cache]_vars

\* C20 witness: a cached analysis was returned without a call while the
\* active setting no longer resolves to the template it was generated under.
C20_Witness ==
    /\ resp.op = "analyze"
    /\ resp.status = 200
    /\ calls = 0
    /\ pc = "idle"
    /\ \E r \in word_cache : r.word = resp.word /\ resp.analysis = <<"html", r.analysis>>
    /\ ActiveRow(templates, settings) = <<>>

====
